---- MODULE Spec2Model ----
(***************************************************************************)
(* ShipLock license engine (src/shiplock_license.py): machine fingerprint,  *)
(* license issuance (create_license, sign_license, write_license), the      *)
(* runtime verifier LicenseVerifier.verify and the generated standalone     *)
(* verifier verify_license_file.                                            *)
(*                                                                          *)
(* Cryptography is idealised: a hash is injective on the values of the      *)
(* model (no collisions), an RSA-PSS signature verifies under a public key  *)
(* exactly when it was made over the same bytes with the matching private   *)
(* key.  Everything else (base64, JSON, ISO timestamps, exception dispatch) *)
(* is computed the way the code computes it.                                *)
(***************************************************************************)
EXTENDS Integers, Sequences, FiniteSets, TLC

\* ------------------------------------------------------------------ bounds
MaxTime == 2        \* the clock runs over 0..MaxTime
MaxIds == 2         \* number of create_license calls (fresh uuid4 values)
MaxKeys == 2        \* number of RSA key pairs ever generated
MaxTamper == 1      \* number of edits made to a license file after it is written

\* -------------------------------------------------------- machine descriptors
\* A descriptor that is unavailable (the source raised, the file is absent, the
\* package is not installed) is NoVal.
NoVal == "<none>"

\* The descriptor sources HardwareFingerprint reads, as one record per machine
\* state.  node is uuid.getnode().
LinuxHost(h) ==
    [system |-> "Linux", hostname |-> h, machine_id_file |-> "mid1",
     cpu_serial |-> NoVal, win_guid |-> NoVal, mac_uuid |-> NoVal,
     netifaces_mac |-> NoVal, node |-> 11, getmac |-> NoVal,
     release |-> "6.1", version |-> "#1", pl_node |-> h,
     pl_machine |-> "x86_64", pl_processor |-> ""]

\* The machine states of the model.  The first two are the issuing machine and
\* the same machine after its hostname changed; the others are machines with
\* other descriptor sources: a board whose /proc/cpuinfo has a Serial line, a
\* host where netifaces is installed and reports the address of an interface
\* other than the one uuid.getnode() gives, a Windows host with its MachineGuid,
\* and a host where no source yields anything.
Machines ==
    << LinuxHost("hostA"),
       LinuxHost("hostB"),
       [LinuxHost("hostA") EXCEPT !.cpu_serial = "Serial : 00000000abcdef01"],
       [LinuxHost("hostA") EXCEPT !.netifaces_mac = "02:42:ac:11:00:02"],
       [LinuxHost("hostA") EXCEPT !.system = "Windows", !.machine_id_file = NoVal,
                                  !.win_guid = "guid-1", !.release = "10"],
       [LinuxHost("hostA") EXCEPT !.hostname = NoVal, !.machine_id_file = NoVal,
                                  !.node = 0] >>

\* The machine states the issuing machine moves between, and all of them.
MachineIds == {1, 2}
HostIds == 1..Len(Machines)

\* hashlib.sha256(x).hexdigest(), for the fingerprint (a string of the model)
Sha256Hex(s) == "sha256(" \o s \o ")"

\* '|'.join(components)
RECURSIVE Join(_)
Join(components) ==
    IF Len(components) = 0 THEN ""
    ELSE IF Len(components) = 1 THEN components[1]
    ELSE components[1] \o "|" \o Join(Tail(components))

\* ':'.join('{:02x}'.format((node >> i) & 0xff) ...): the node id written as a
\* hardware address
FormatMac(node) == IF node = 0 THEN "00:00:00:00:00:00" ELSE "mac:" \o ToString(node)

Opt(v) == IF v = NoVal THEN << >> ELSE << v >>

\* s[:n]
Prefix(s, n) == IF Len(s) <= n THEN s ELSE SubSeq(s, 1, n)

\* pl.processor()[:50]
ProcessorCut == 50

\* HardwareFingerprint._get_mac_address
GetMacAddress(m) ==
    IF m.netifaces_mac # NoVal /\ m.netifaces_mac # "" /\ m.netifaces_mac # "00:00:00:00:00:00"
    THEN m.netifaces_mac
    ELSE IF m.node # 0
    THEN FormatMac(m.node)
    ELSE IF m.system = "Windows" /\ m.getmac # NoVal
    THEN m.getmac
    ELSE NoVal

\* Mutant: socket.gethostname() is called outside a try; when it raises, the
\* call returns nothing.
GetMachineId_Unguarded(m) ==
    IF m.hostname = NoVal THEN NoVal
    ELSE Sha256Hex(Join(<< m.hostname >> \o Opt(GetMacAddress(m))))

\* HardwareFingerprint.get_machine_id
GetMachineId(m) ==
    LET host == Opt(m.hostname)
        osid == IF m.system = "Linux" THEN Opt(m.machine_id_file) \o Opt(m.cpu_serial)
                ELSE IF m.system = "Windows" THEN Opt(m.win_guid)
                ELSE IF m.system = "Darwin" THEN Opt(m.mac_uuid)
                ELSE << >>
        mac  == Opt(GetMacAddress(m))
        c1   == host \o osid \o mac
        c2   == IF Len(c1) < 2 /\ m.node # 0 THEN c1 \o << ToString(m.node) >> ELSE c1
        c3   == IF Len(c2) = 0
                THEN << m.pl_node, m.pl_machine,
                        IF m.pl_processor # "" THEN Prefix(m.pl_processor, ProcessorCut)
                        ELSE "unknown" >>
                ELSE c2
    IN Sha256Hex(Join(c3))

\* HardwareFingerprint.get_system_info
GetSystemInfo(m) ==
    [platform |-> m.system, platform_release |-> m.release,
     platform_version |-> m.version, architecture |-> m.pl_machine,
     processor |-> m.pl_processor, hostname |-> m.pl_node]

\* The fingerprint the generated verify_license_file computes.
ScriptMachineId(m) ==
    Sha256Hex(Join(Opt(m.hostname) \o Opt(m.machine_id_file) \o << FormatMac(m.node) >>))

\* The descriptor states get_machine_id is called in on its own: each source
\* yields a value or fails, on each kind of system.
Systems == {"Linux", "Windows", "Darwin", "FreeBSD"}

DescriptorState(system, hostname, osid, serial, netifaces, node, getmac) ==
    [LinuxHost("hostA") EXCEPT
        !.system = system,
        !.hostname = hostname,
        !.machine_id_file = IF system = "Linux" THEN osid ELSE NoVal,
        !.win_guid = IF system = "Windows" THEN osid ELSE NoVal,
        !.mac_uuid = IF system = "Darwin" THEN osid ELSE NoVal,
        !.cpu_serial = IF system = "Linux" THEN serial ELSE NoVal,
        !.netifaces_mac = netifaces,
        !.node = node,
        !.getmac = IF system = "Windows" THEN getmac ELSE NoVal]

DescriptorStates ==
    {DescriptorState(system, hostname, osid, serial, netifaces, node, getmac) :
        system \in Systems, hostname \in {NoVal, "hostA"}, osid \in {NoVal, "id-1"},
        serial \in {NoVal, "Serial : 00000000abcdef01"},
        netifaces \in {NoVal, "02:42:ac:11:00:02"}, node \in {0, 11},
        getmac \in {NoVal, "0a:00:27:00:00:0b"}}

\* ------------------------------------------------------------- key material
\* Key pairs are numbered 1..MaxKeys; 0 stands for "no key" (None).
NoKey == 0
KeyIds == 1..MaxKeys

\* public_key.public_bytes(PEM, SubjectPublicKeyInfo).decode('utf-8')
PublicPem(k) == "pem:" \o ToString(k)

\* A public_key field that is no PEM key at all.
BadPem == "pem:garbage"

\* An exception: its class and str(e).
Exc(type, msg) == [type |-> type, msg |-> msg]
NoExc == Exc("", "")
Ok(v) == [exc |-> NoExc, val |-> v]
Raise(type, msg) == [exc |-> Exc(type, msg), val |-> NoVal]

\* serialization.load_pem_public_key(public_key_pem.encode('utf-8'))
LoadPemPublicKey(pem) ==
    IF \E k \in KeyIds : PublicPem(k) = pem
    THEN Ok(CHOOSE k \in KeyIds : PublicPem(k) = pem)
    ELSE Raise("ValueError", "Unable to load PEM file")

\* private_key.sign(license_bytes, PSS(MGF1(SHA256), MAX_LENGTH), SHA256): the
\* signature bytes made with key k over msg (the random PSS salt is left out: no
\* check reads it).
RsaSign(k, msg) == [key |-> k, msg |-> msg]

\* public_key.verify(signature, license_bytes, PSS, SHA256) does not raise
RsaVerifies(pub, sig, msg) == sig.key = pub /\ sig.key # NoKey /\ sig.msg = msg

\* ---------------------------------------------------------------- base64
\* A base64 text is the bytes it encodes, which of the texts decoding to these
\* bytes it is (0 is the canonical one b64encode returns; b64decode accepts others:
\* it ignores the unused bits of the last symbol), and whether it decodes at all.
B64Encode(bytes) == [ok |-> TRUE, variant |-> 0, bytes |-> bytes]

\* base64.b64decode(s)
B64Decode(s) ==
    IF s.ok THEN Ok(s.bytes) ELSE Raise("binascii.Error", "Incorrect padding")

\* ------------------------------------------------------------------ JSON
\* The keys of a license claim in the order json.dumps(sort_keys=True) writes them.
FieldOrder ==
    << "client", "expires_at", "features", "issued_at", "license_id",
       "machine_bound", "machine_id", "product_id", "system_info", "version" >>

\* json.dumps(license_data, sort_keys=True).encode('utf-8'): the key/value pairs
\* of the dict in sorted key order.
JsonDumps(d) ==
    LET keys == SelectSeq(FieldOrder, LAMBDA k : k \in DOMAIN d)
    IN [kind |-> "json", pairs |-> [i \in 1..Len(keys) |-> << keys[i], d[keys[i]] >>]]

\* json.loads(license_bytes.decode('utf-8'))
JsonLoads(bytes) ==
    IF bytes.kind = "binary"
    THEN Raise("UnicodeDecodeError", "'utf-8' codec can't decode byte")
    ELSE IF bytes.kind # "json"
    THEN Raise("JSONDecodeError", "Expecting value")
    ELSE LET ps == bytes.pairs
             idx(k) == CHOOSE i \in 1..Len(ps) : ps[i][1] = k
         IN Ok([k \in {ps[i][1] : i \in 1..Len(ps)} |-> ps[idx(k)][2]])

\* Bytes that are text but no JSON, and bytes that are no UTF-8 text.
TextBytes == [kind |-> "text", pairs |-> << >>]
BinaryBytes == [kind |-> "binary", pairs |-> << >>]

\* ---------------------------------------------------------- ISO timestamps
\* datetime.isoformat() of the instant n
IsoFormat(n) == "T" \o ToString(n)

\* datetime.fromisoformat(s)
FromIsoFormat(s) ==
    IF \E n \in 0..(MaxTime + 1) : IsoFormat(n) = s
    THEN Ok(CHOOSE n \in 0..(MaxTime + 1) : IsoFormat(n) = s)
    ELSE Raise("ValueError", "Invalid isoformat string: '" \o s \o "'")

\* ------------------------------------------------------------ integrity seal
IntegritySalt == "shiplock_integrity_salt_v1"

\* hashlib.sha256(x + salt).hexdigest() and hashlib.sha512(x + salt).hexdigest()
HashSha256(x, salt) == [alg |-> "sha256", salt |-> salt, of |-> x]
HashSha512(x, salt) == [alg |-> "sha512", salt |-> salt, of |-> x]

\* f"{license_b64}:{signature_b64}"
Combined(license_b64, sep, signature_b64) ==
    [license |-> license_b64, sep |-> sep, signature |-> signature_b64]

\* LicenseVerifier._calculate_integrity
CalculateIntegrity(license_b64, signature_b64) ==
    LET combined == [license |-> license_b64, sep |-> ":", signature |-> signature_b64]
        hash1 == HashSha256(combined, IntegritySalt)
        hash2 == HashSha512(hash1, IntegritySalt)
        hash3 == HashSha256(hash2, IntegritySalt)
    IN hash3

\* Mutant: the generator seals with the salt of another version.
GeneratorCalculateIntegrity_OtherSalt(license_b64, signature_b64) ==
    LET salt == "shiplock_integrity_salt_v2"
        combined == Combined(license_b64, ":", signature_b64)
    IN HashSha256(HashSha512(HashSha256(combined, salt), salt), salt)

\* LicenseGenerator._calculate_integrity
GeneratorCalculateIntegrity(license_b64, signature_b64) ==
    LET combined == Combined(license_b64, ":", signature_b64)
        salt == "shiplock_integrity_salt_v1"
        hash1 == HashSha256(combined, salt)
        hash2 == HashSha512(hash1, salt)
        hash3 == HashSha256(hash2, salt)
    IN hash3

\* The seal verify_license_file recomputes (hash3 of the generated script).
ScriptIntegrity(license_b64, signature_b64) ==
    LET combined == Combined(license_b64, ":", signature_b64)
        salt == "shiplock_integrity_salt_v1"
        hash1 == HashSha256(combined, salt)
        hash2 == HashSha512(hash1, salt)
        hash3 == HashSha256(hash2, salt)
    IN hash3

\* --------------------------------------------------------------- file system
\* The license paths write_license is asked to write, and every path of the model.
LicensePaths == {"a.key", "b.key", "c.lic"}

\* output_path.replace('.key', '.bin')
RECURSIVE Replace(_, _, _)
Replace(s, old, new) ==
    IF Len(s) < Len(old) THEN s
    ELSE IF SubSeq(s, 1, Len(old)) = old
    THEN new \o Replace(SubSeq(s, Len(old) + 1, Len(s)), old, new)
    ELSE SubSeq(s, 1, 1) \o Replace(SubSeq(s, 2, Len(s)), old, new)

BinaryPath(p) == Replace(p, ".key", ".bin")

AllPaths == LicensePaths \cup {BinaryPath(p) : p \in LicensePaths}

\* What a path holds: nothing, bytes that are no text, text that is no JSON, or a
\* JSON object (obj: its fields).
NoObj == [f \in {} |-> NoVal]
Missing == [kind |-> "missing", obj |-> NoObj]
BinaryFile == [kind |-> "binary", obj |-> NoObj]
TextFile == [kind |-> "text", obj |-> NoObj]
JsonFile(obj) == [kind |-> "json", obj |-> obj]

ArtifactFields == {"license", "signature", "public_key", "integrity"}

\* Where the content of a path comes from (history, not program state): the claim
\* it was signed from, whether create_license built that claim unchanged, and the
\* fields edited since it was written.
NoProv == [origin |-> "none", claim |-> NoObj, edits |-> << >>]

\* --------------------------------------------------------------------- state
VARIABLES
    now,          \* datetime.now()
    machine,      \* the descriptor state of the machine (an index of Machines)
    gen,          \* LicenseGenerator: private_key, public_key
    keyfiles,     \* shiplock_private.key and shiplock_public.key
    nextKey,      \* key pairs generated so far
    nextId,       \* license ids drawn so far
    files,        \* path -> content
    prov,         \* path -> provenance of the content
    public_key,   \* LicenseVerifier.public_key of the shared instance
    call,         \* thread -> its verification call
    activation,   \* the content of ~/.shiplock/activation.json
    act,          \* the last activate_license call (history, not program state)
    made,         \* the create_license calls whose claim the caller kept: arguments
                  \* and the dict returned (history, not program state)
    probe,        \* get_machine_id called on its own: the descriptor sources and
                  \* what the calls returned (history, not program state)
    launch        \* the launcher process (run.sh or the container entrypoint): its
                  \* position, what it saw and what it started

vars == << now, machine, gen, keyfiles, nextKey, nextId, files, prov, public_key, call,
           activation, act, made, probe, launch >>

\* The activation store and the history of its use; the claims create_license
\* returned to callers that have not signed them.
store == << activation, act, made, probe, launch >>

Threads == {1, 2}

\* The process has not exited (a call that is no process has no exit status).
NoExit == -1

IdleCall ==
    [pc |-> "idle", impl |-> NoVal, path |-> NoVal, art |-> Missing, prov |-> NoProv,
     bytes |-> NoVal, sig |-> NoVal, data |-> NoVal, key |-> NoKey,
     nowRead |-> NoVal, midRead |-> NoVal, checks |-> << >>, result |-> NoVal,
     overlap |-> FALSE, argv |-> << >>, exit |-> NoExit, printed |-> ""]

\* No activate_license call was made yet.  ret: what the last call returned;
\* result: what verify returned in it; before, after: the store around it; m, t:
\* the machine and the time of it; planted: the store was written by another
\* hand than activate_license; succeeded: some call returned True.
NoAct ==
    [done |-> FALSE, ret |-> FALSE, result |-> [raised |-> FALSE, ok |-> FALSE,
                                                 details |-> [reason |-> ""]],
     before |-> Missing, after |-> Missing, m |-> 1, prev |-> 0, t |-> 0,
     planted |-> FALSE, succeeded |-> FALSE]

\* No get_machine_id call was made on its own.
NoProbe == [calls |-> 0, m |-> Machines[1], first |-> NoVal, second |-> NoVal]

\* No launcher runs.  seen: the license file existed when the launcher looked;
\* py_exit: the exit status of verify_license.py in this run; accepted: what
\* verify_license_file returned in it; loaded, started: the images were loaded,
\* the services or the application command were started.
NoLaunch ==
    [kind |-> NoVal, pc |-> "idle", status |-> NoExit, checked |-> FALSE, seen |-> FALSE,
     py_exit |-> NoExit, accepted |-> FALSE, loaded |-> FALSE, started |-> FALSE]

Init ==
    /\ now = 0
    /\ machine = 1
    /\ gen = [private_key |-> NoKey, public_key |-> NoKey]
    /\ keyfiles = [private |-> NoKey, public |-> NoKey]
    /\ nextKey = 0
    /\ nextId = 0
    /\ files = [p \in AllPaths |-> Missing]
    /\ prov = [p \in AllPaths |-> NoProv]
    /\ public_key = NoKey
    /\ call = [t \in Threads |-> IdleCall]
    /\ activation = Missing
    /\ act = NoAct
    /\ made = << >>
    /\ probe = NoProbe
    /\ launch = NoLaunch

\* No verification call is between its start and its return.
Quiet == \A t \in Threads : call[t].pc = "idle"

\* ----------------------------------------------------------------- the clock
\* The environment moves between calls: a call reads the file, the clock and the
\* descriptors once each, so every combination of values a call can read is one
\* that holds between calls.
Tick ==
    /\ now < MaxTime
    /\ Quiet
    /\ now' = now + 1
    /\ UNCHANGED << machine, gen, keyfiles, nextKey, nextId, files, prov, public_key, call, store >>

\* The machine's descriptors change (hostname, network hardware, ...).
ChangeMachine ==
    /\ Quiet
    /\ \E m \in MachineIds : m # machine /\ machine' = m
    /\ UNCHANGED << now, gen, keyfiles, nextKey, nextId, files, prov, public_key, call, store >>

\* The software runs on another machine.
MoveTo(hosts) ==
    /\ Quiet
    /\ \E m \in hosts : m # machine /\ machine' = m
    /\ UNCHANGED << now, gen, keyfiles, nextKey, nextId, files, prov, public_key, call, store >>

\* get_machine_id is called in some descriptor state, and called again in the
\* same state at whatever time.
FirstProbe ==
    /\ probe.calls = 0
    /\ \E m \in DescriptorStates :
          probe' = [calls |-> 1, m |-> m, first |-> GetMachineId(m), second |-> NoVal]
    /\ UNCHANGED << now, machine, gen, keyfiles, nextKey, nextId, files, prov, public_key, call,
                    activation, act, made, launch >>

SecondProbe ==
    /\ probe.calls = 1
    /\ probe' = [probe EXCEPT !.calls = 2, !.second = GetMachineId(probe.m)]
    /\ UNCHANGED << now, machine, gen, keyfiles, nextKey, nextId, files, prov, public_key, call,
                    activation, act, made, launch >>

\* ------------------------------------------------------------ LicenseGenerator
\* The key state the generator works on: its two fields, the two key files and
\* the number of key pairs generated.
KeyState == [gen |-> gen, keyfiles |-> keyfiles, nextKey |-> nextKey]

\* generate_keys: a fresh pair, held by the generator and written to both files
GenerateKeysOn(ks) ==
    LET k == ks.nextKey + 1
    IN [gen |-> [private_key |-> k, public_key |-> k],
        keyfiles |-> [private |-> k, public |-> k],
        nextKey |-> k]

\* load_keys: both files are read; FileNotFoundError on either generates new keys
LoadKeysOn(ks) ==
    IF ks.keyfiles.private = NoKey \/ ks.keyfiles.public = NoKey
    THEN GenerateKeysOn(ks)
    ELSE [ks EXCEPT !.gen = [private_key |-> ks.keyfiles.private,
                             public_key |-> ks.keyfiles.public]]

\* Whether load_keys falls back on generate_keys.
LoadGenerates(ks) == ks.keyfiles.private = NoKey \/ ks.keyfiles.public = NoKey

SetKeyState(ks) ==
    /\ gen' = ks.gen
    /\ keyfiles' = ks.keyfiles
    /\ nextKey' = ks.nextKey

GenerateKeys ==
    /\ nextKey < MaxKeys
    /\ Quiet
    /\ SetKeyState(GenerateKeysOn(KeyState))
    /\ UNCHANGED << now, machine, nextId, files, prov, public_key, call, store >>

LoadKeys ==
    /\ LoadGenerates(KeyState) => nextKey < MaxKeys
    /\ Quiet
    /\ SetKeyState(LoadKeysOn(KeyState))
    /\ UNCHANGED << now, machine, nextId, files, prov, public_key, call, store >>

\* generate_keys is interrupted (the process is killed, the disk is full)
\* between the two writes: the private key file holds the new key, the public
\* key file is as it was.  The instance is gone with its process.
GenerateKeysInterrupted ==
    /\ nextKey < MaxKeys
    /\ Quiet
    /\ nextKey' = nextKey + 1
    /\ keyfiles' = [keyfiles EXCEPT !.private = nextKey + 1]
    /\ gen' = [private_key |-> NoKey, public_key |-> NoKey]
    /\ UNCHANGED << now, machine, nextId, files, prov, public_key, call, store >>

\* LicenseGenerator(): a new instance, holding no key, takes the place of the
\* one before; the key files stay.
NewGenerator ==
    /\ Quiet
    /\ gen.private_key # NoKey
    /\ gen' = [private_key |-> NoKey, public_key |-> NoKey]
    /\ UNCHANGED << now, machine, keyfiles, nextKey, nextId, files, prov, public_key, call, store >>

\* x or default
OrElse(x, default) == IF x = NoVal \/ x = "" THEN default ELSE x

\* create_license: id is the uuid4 drawn, m the machine and t the time of the call
CreateLicense(id, product_id, client, expires, machine_bound, features, m, t) ==
    LET license_data ==
            [license_id |-> "uuid-" \o ToString(id),
             product_id |-> product_id,
             client |-> client,
             issued_at |-> IsoFormat(t),
             expires_at |-> OrElse(expires, "never"),
             machine_bound |-> machine_bound,
             features |-> IF features = NoVal THEN NoObj ELSE features,
             version |-> "1.0"]
    IN IF machine_bound
       THEN license_data @@ [machine_id |-> GetMachineId(m),
                             system_info |-> GetSystemInfo(m)]
       ELSE license_data

\* sign_license: the key state after the call and the JSON text returned
SignLicense(ks, license_data) ==
    LET ks1 == IF ks.gen.private_key = NoKey THEN LoadKeysOn(ks) ELSE ks
        license_bytes == JsonDumps(license_data)
        signature == RsaSign(ks1.gen.private_key, license_bytes)
        license_b64 == B64Encode(license_bytes)
        signature_b64 == B64Encode(signature)
        signed_license ==
            [license |-> license_b64,
             signature |-> signature_b64,
             public_key |-> PublicPem(ks1.gen.public_key),
             integrity |-> GeneratorCalculateIntegrity(license_b64, signature_b64)]
    IN [ks |-> ks1, text |-> JsonFile(signed_license)]

\* write_license: the text at output_path, then the encrypted copy at binary_path
WriteLicense(fs, signed_license, output_path) ==
    LET fs1 == [fs EXCEPT ![output_path] = signed_license]
    IN [fs1 EXCEPT ![BinaryPath(output_path)] = BinaryFile]

\* The same for the provenance of the two paths.
WriteProv(pv, entry, output_path) ==
    LET pv1 == [pv EXCEPT ![output_path] = entry]
    IN [pv1 EXCEPT ![BinaryPath(output_path)] =
            [origin |-> "binary", claim |-> NoObj, edits |-> << >>]]

\* d without key f
Drop(d, f) == [k \in DOMAIN d \ {f} |-> d[k]]

\* The inputs of the issuing side.
Products == {"acme-core"}
Clients == {"Acme Corp"}
ExpiresInputs == {NoVal, IsoFormat(1), "31/12/2030"}
FeaturesInputs == {NoVal}
DroppedFields == {"machine_id", "license_id", "expires_at"}

\* The dicts a caller hands to sign_license: the claim create_license returned,
\* or that claim with a field removed.
ClaimsFrom(created, dropped) ==
    {created} \cup {Drop(created, f) : f \in dropped \cap DOMAIN created}

\* The vendor issues a license: create_license, sign_license, write_license.
\* paths, expiries, bindings and dropped are the inputs a specification draws from.
IssueLicense(paths, expiries, bindings, dropped) ==
    /\ nextId < MaxIds
    /\ Quiet
    /\ gen.private_key = NoKey /\ LoadGenerates(KeyState) => nextKey < MaxKeys
    /\ \E path \in paths, product_id \in Products, client \in Clients,
          expires \in expiries, machine_bound \in bindings,
          features \in FeaturesInputs :
          LET created == CreateLicense(nextId + 1, product_id, client, expires,
                                       machine_bound, features, Machines[machine], now)
          IN \E license_data \in ClaimsFrom(created, dropped) :
                LET signed == SignLicense(KeyState, license_data)
                IN /\ SetKeyState(signed.ks)
                   /\ files' = WriteLicense(files, signed.text, path)
                   /\ prov' = WriteProv(prov,
                                [origin |-> IF license_data = created THEN "created"
                                            ELSE "crafted",
                                 claim |-> license_data, edits |-> << >>], path)
    /\ nextId' = nextId + 1
    /\ UNCHANGED << now, machine, public_key, call, store >>

\* The expires arguments of a bare create_license call: none, the empty string,
\* a timestamp.
CreateExpires == {NoVal, "", IsoFormat(1)}

\* A caller calls create_license and keeps the dict.
CreateClaim ==
    /\ nextId < MaxIds
    /\ Quiet
    /\ \E product_id \in Products, client \in Clients, expires \in CreateExpires,
          machine_bound \in BOOLEAN, features \in FeaturesInputs :
          made' = Append(made,
                         [id |-> nextId + 1, product_id |-> product_id, client |-> client,
                          expires |-> expires, machine_bound |-> machine_bound,
                          features |-> features, m |-> machine, t |-> now,
                          claim |-> CreateLicense(nextId + 1, product_id, client, expires,
                                                  machine_bound, features,
                                                  Machines[machine], now)])
    /\ nextId' = nextId + 1
    /\ UNCHANGED << now, machine, gen, keyfiles, nextKey, files, prov, public_key, call,
                    activation, act, probe, launch >>

\* ------------------------------------------------- edits of a license file
\* Whoever holds the file can edit it.  The values a field is changed to:
\*   license    another base64 text of the same bytes, a text that does not
\*              decode, the claim with its expiry or its machine binding lifted;
\*   signature  another base64 text of the same bytes, a text that does not
\*              decode, bytes that are no signature, a signature made with
\*              another private key over the claim bytes present;
\*   public_key another key, text that is no key;
\*   integrity  the seal recomputed over the fields present (the salt is in the
\*              shipped verifier), a digest with one digit changed.
Respell(b64) == [b64 EXCEPT !.variant = 1 - @]
Damage(b64) == [b64 EXCEPT !.ok = FALSE]

Lifted(claim) ==
    {[claim EXCEPT ![f] = IF f = "expires_at" THEN "never" ELSE FALSE] :
        f \in {"expires_at", "machine_bound"} \cap DOMAIN claim}

EditedValues(obj, f) ==
    IF f = "license"
    THEN {Respell(obj.license), Damage(obj.license)}
         \cup (IF obj.license.bytes.kind = "json"
               THEN {B64Encode(JsonDumps(c)) : c \in Lifted(JsonLoads(obj.license.bytes).val)}
               ELSE {})
    ELSE IF f = "signature"
    THEN {Respell(obj.signature), Damage(obj.signature),
          B64Encode(RsaSign(NoKey, obj.signature.bytes.msg))}
         \cup (IF "license" \in DOMAIN obj
               THEN {B64Encode(RsaSign(k, obj.license.bytes)) : k \in KeyIds}
               ELSE {})
    ELSE IF f = "public_key"
    THEN {PublicPem(k) : k \in KeyIds} \cup {BadPem}
    ELSE (IF {"license", "signature"} \subseteq DOMAIN obj
          THEN {CalculateIntegrity(obj.license, obj.signature)}
          ELSE {})
         \cup {[obj.integrity EXCEPT !.salt = "?"]}

\* One field of the JSON object at path is changed to another value.
EditField(paths) ==
    /\ Quiet
    /\ \E path \in paths :
          /\ files[path].kind = "json"
          /\ Len(prov[path].edits) < MaxTamper
          /\ \E f \in DOMAIN files[path].obj :
                \E v \in EditedValues(files[path].obj, f) :
                   /\ v # files[path].obj[f]
                   /\ files' = [files EXCEPT ![path].obj[f] = v]
                   /\ prov' = [prov EXCEPT ![path].edits = Append(@, f)]
    /\ UNCHANGED << now, machine, gen, keyfiles, nextKey, nextId, public_key, call, store >>

\* One field of the JSON object at path is removed.
RemoveField(paths) ==
    /\ Quiet
    /\ \E path \in paths :
          /\ files[path].kind = "json"
          /\ Len(prov[path].edits) < MaxTamper
          /\ \E f \in DOMAIN files[path].obj :
                /\ files' = [files EXCEPT ![path].obj = Drop(@, f)]
                /\ prov' = [prov EXCEPT ![path].edits = Append(@, "-" \o f)]
    /\ UNCHANGED << now, machine, gen, keyfiles, nextKey, nextId, public_key, call, store >>

\* The file is deleted, or overwritten with text that is no JSON or with bytes
\* that are no text.
ReplaceFile(paths) ==
    /\ Quiet
    /\ \E path \in paths, content \in {Missing, TextFile, BinaryFile} :
          /\ files[path].kind = "json"
          /\ files' = [files EXCEPT ![path] = content]
          /\ prov' = [prov EXCEPT ![path] = NoProv]
    /\ UNCHANGED << now, machine, gen, keyfiles, nextKey, nextId, public_key, call, store >>

\* A file made without the generator.  Its maker signs bytes of their choice
\* (text that is no JSON, bytes that are no text, or a claim of their own that
\* never expires and is bound to no machine) with the private key of any pair,
\* embeds that pair's public key and computes the seal; the artifact is then
\* left whole or given one defect, or the two defects of a wrong seal on a
\* wrong signature.
ForgedClaim ==
    CreateLicense(0, "acme-core", "Acme Corp", NoVal, FALSE, NoVal, Machines[1], 0)

ForgedBytes == {TextBytes, BinaryBytes, JsonDumps(ForgedClaim)}

ForgeDefects ==
    {"none", "license", "signature", "unsigned", "key", "seal", "seal+unsigned",
     "-license", "-signature", "-public_key", "-integrity"}

ForgedArtifact(k, bytes, defect) ==
    LET license_b64 == IF defect = "license" THEN Damage(B64Encode(bytes))
                       ELSE B64Encode(bytes)
        signature_b64 ==
            IF defect = "signature" THEN Damage(B64Encode(RsaSign(k, bytes)))
            ELSE IF defect \in {"unsigned", "seal+unsigned"}
            THEN B64Encode(RsaSign(NoKey, bytes))
            ELSE B64Encode(RsaSign(k, bytes))
        sealed == CalculateIntegrity(license_b64, signature_b64)
        obj == [license |-> license_b64, signature |-> signature_b64,
                public_key |-> IF defect = "key" THEN BadPem ELSE PublicPem(k),
                integrity |-> IF defect \in {"seal", "seal+unsigned"}
                              THEN [sealed EXCEPT !.salt = "?"] ELSE sealed]
    IN JsonFile(IF defect \in {"-" \o f : f \in ArtifactFields}
                THEN Drop(obj, CHOOSE f \in ArtifactFields : defect = "-" \o f)
                ELSE obj)

ForgeFile(paths) ==
    /\ Quiet
    /\ \E path \in paths, k \in KeyIds, bytes \in ForgedBytes, defect \in ForgeDefects :
          /\ files[path].kind = "missing"
          /\ files' = [files EXCEPT ![path] = ForgedArtifact(k, bytes, defect)]
          /\ prov' = [prov EXCEPT ![path] =
                        [origin |-> "forged", claim |-> NoObj, edits |-> << >>]]
    /\ UNCHANGED << now, machine, gen, keyfiles, nextKey, nextId, public_key, call, store >>

\* ------------------------------------------------------------ LicenseVerifier
\* What a call hands back: (is_valid, details), or an exception that leaves it.
Rejected(details) == [raised |-> FALSE, ok |-> FALSE, details |-> details]
Accepted(details) == [raised |-> FALSE, ok |-> TRUE, details |-> details]
Propagated(exc) == [raised |-> TRUE, ok |-> FALSE, details |-> [exception |-> exc.type]]

IntegrityReason == "Integrity check failed - license may be tampered"
SignatureReason == "Signature verification failed: "
ExpiredReason == "License expired"
MachineReason == "License not valid for this machine"
NotFoundReason == "License file not found"
FormatReason == "Invalid license file format"
ErrorReason == "Verification error: "

\* Mutant: only the two named exceptions are caught.
HandleVerify_Narrow(exc) ==
    IF exc.type = "FileNotFoundError"
    THEN Rejected([reason |-> NotFoundReason])
    ELSE IF exc.type = "JSONDecodeError"
    THEN Rejected([reason |-> FormatReason])
    ELSE Propagated(exc)

\* The except clauses of verify, in their order.
HandleVerify(exc) ==
    IF exc.type = "FileNotFoundError"
    THEN Rejected([reason |-> NotFoundReason])
    ELSE IF exc.type = "JSONDecodeError"
    THEN Rejected([reason |-> FormatReason])
    ELSE Rejected([reason |-> ErrorReason \o exc.msg])

\* open(license_file, 'r') ... json.loads(f.read())
ReadJsonFile(content) ==
    IF content.kind = "missing"
    THEN Raise("FileNotFoundError", "No such file or directory")
    ELSE IF content.kind = "binary"
    THEN Raise("UnicodeDecodeError", "'utf-8' codec can't decode byte")
    ELSE IF content.kind = "text"
    THEN Raise("JSONDecodeError", "Expecting value")
    ELSE Ok(content.obj)

\* signed_license['license'], ['signature'], ['public_key'], ['integrity']
ExtractOrder == << "license", "signature", "public_key", "integrity" >>

ExtractFields(obj) ==
    LET absent == SelectSeq(ExtractOrder, LAMBDA f : f \notin DOMAIN obj)
    IN IF Len(absent) > 0
       THEN Raise("KeyError", "'" \o absent[1] \o "'")
       ELSE Ok(obj)

\* Mutant: the seal is compared over the license text alone.
SealMatches_LicenseOnly(integrity, license_b64, signature_b64) ==
    integrity.of.of.of.license = license_b64

\* integrity != expected_integrity is false
SealMatches(integrity, license_b64, signature_b64) ==
    integrity = CalculateIntegrity(license_b64, signature_b64)

\* Mutant: the verifier checks against the vendor's public key file when there
\* is one.
AssignedPublicKey_Pinned(current, loaded) ==
    IF keyfiles.public # NoKey THEN keyfiles.public ELSE loaded

\* Mutant: the key loaded by an earlier call is kept.
AssignedPublicKey_Cached(current, loaded) ==
    IF current # NoKey THEN current ELSE loaded

\* self.public_key = load_pem_public_key(...): the value the field takes
AssignedPublicKey(current, loaded) == loaded

\* Mutant: a failed signature check does not stop the call.
SignatureValid_Ignored(key, signature, license_bytes) == TRUE

\* self.public_key.verify(...) raises nothing
SignatureValid(key, signature, license_bytes) ==
    RsaVerifies(key, signature, license_bytes)

\* Mutant: a license is expired from the instant of its expiry on.
IsExpired_Inclusive(current, expiry_date) == current >= expiry_date

\* datetime.now() > expiry_date
IsExpired(current, expiry_date) == current > expiry_date

\* Mutant: a claim without machine_id is not compared.
MachineDiffers_SkipEmpty(current_machine_id, license_machine_id) ==
    license_machine_id # "" /\ current_machine_id # license_machine_id

\* Mutant: an activated installation is not compared again.
MachineDiffers_UnlessActivated(current_machine_id, license_machine_id) ==
    activation.kind = "missing" /\ current_machine_id # license_machine_id

\* current_machine_id != license_machine_id
MachineDiffers(current_machine_id, license_machine_id) ==
    current_machine_id # license_machine_id

\* dict.get(key, default)
Get(d, key, default) == IF key \in DOMAIN d THEN d[key] ELSE default

\* The dict returned with True.
ReturnedFields ==
    << "license_id", "product_id", "client", "issued_at", "expires_at", "machine_bound" >>

\* Mutant: expires_at is filled from issued_at.
ValidDetails_Miscopied(license_data) ==
    LET absent == SelectSeq(ReturnedFields, LAMBDA f : f \notin DOMAIN license_data)
    IN IF Len(absent) > 0
       THEN Raise("KeyError", "'" \o absent[1] \o "'")
       ELSE Ok([f \in {ReturnedFields[i] : i \in 1..Len(ReturnedFields)} \cup {"features"} |->
                    IF f = "features" THEN Get(license_data, "features", NoObj)
                    ELSE IF f = "expires_at" THEN license_data["issued_at"]
                    ELSE license_data[f]])

ValidDetails(license_data) ==
    LET absent == SelectSeq(ReturnedFields, LAMBDA f : f \notin DOMAIN license_data)
    IN IF Len(absent) > 0
       THEN Raise("KeyError", "'" \o absent[1] \o "'")
       ELSE Ok([f \in {ReturnedFields[i] : i \in 1..Len(ReturnedFields)} \cup {"features"} |->
                    IF f = "features" THEN Get(license_data, "features", NoObj)
                    ELSE license_data[f]])

\* Mutant: the machine check runs before the expiry check.
StageAfter_Swapped(stage) ==
    IF stage = "decode" THEN "machine"
    ELSE IF stage = "machine" THEN "expiry"
    ELSE "accept"

\* The checks after the claim is decoded, in the order the code runs them.
StageAfter(stage) ==
    IF stage = "decode" THEN "expiry"
    ELSE IF stage = "expiry" THEN "machine"
    ELSE "accept"

\* [:16] + '...'
FingerprintCut == 16
\* Mutant: the fingerprint is reported whole.
Shorten_Whole(fingerprint) == fingerprint \o "..."

Shorten(fingerprint) == Prefix(fingerprint, FingerprintCut) \o "..."

InFlight(c) == c.pc \notin {"idle", "done"}

\* The call of thread t ends with result.
Finish(t, c, result) ==
    call' = [call EXCEPT ![t] = [c EXCEPT !.pc = "done", !.result = result]]

Goto(t, c, pc) ==
    call' = [call EXCEPT ![t] = [c EXCEPT !.pc = pc]]

\* A call of thread t starts: the other calls in flight overlap with it.
Started(t, c) ==
    call' = [u \in Threads |->
                IF u = t THEN [c EXCEPT !.overlap = \E v \in Threads \ {t} : InFlight(call[v])]
                ELSE IF InFlight(call[u]) THEN [call[u] EXCEPT !.overlap = TRUE]
                ELSE call[u]]

\* verify, lines 393-406: the file is read and parsed, the four fields taken,
\* the seal recomputed and compared.
VerifyOpen(t, paths) ==
    /\ call[t].pc = "idle"
    /\ \E path \in paths :
          LET c0 == [IdleCall EXCEPT !.impl = "verify", !.path = path,
                                     !.art = files[path], !.prov = prov[path],
                                     !.checks = << "parse" >>]
              parsed == ReadJsonFile(files[path])
              fields == ExtractFields(parsed.val)
              obj == parsed.val
          IN IF parsed.exc # NoExc
             THEN Started(t, [c0 EXCEPT !.pc = "done", !.result = HandleVerify(parsed.exc)])
             ELSE IF fields.exc # NoExc
             THEN Started(t, [c0 EXCEPT !.pc = "done", !.result = HandleVerify(fields.exc)])
             ELSE IF ~SealMatches(obj.integrity, obj.license, obj.signature)
             THEN Started(t, [c0 EXCEPT !.pc = "done", !.checks = << "parse", "seal" >>,
                                        !.result = Rejected([reason |-> IntegrityReason])])
             ELSE Started(t, [c0 EXCEPT !.pc = "loadkey", !.checks = << "parse", "seal" >>])
    /\ UNCHANGED << now, machine, gen, keyfiles, nextKey, nextId, files, prov, public_key, store >>

\* verify, lines 408-416: the embedded key is loaded into self.public_key, the
\* license and the signature are decoded.
VerifyLoadKey(t) ==
    LET c == [call[t] EXCEPT !.checks = Append(@, "signature")]
        loaded == LoadPemPublicKey(c.art.obj.public_key)
        license_bytes == B64Decode(c.art.obj.license)
        signature == B64Decode(c.art.obj.signature)
    IN /\ call[t].pc = "loadkey"
       /\ IF loaded.exc # NoExc
          THEN /\ Finish(t, c, HandleVerify(loaded.exc))
               /\ UNCHANGED public_key
          ELSE /\ public_key' = AssignedPublicKey(public_key, loaded.val)
               /\ IF license_bytes.exc # NoExc
                  THEN Finish(t, c, HandleVerify(license_bytes.exc))
                  ELSE IF signature.exc # NoExc
                  THEN Finish(t, c, HandleVerify(signature.exc))
                  ELSE Goto(t, [c EXCEPT !.bytes = license_bytes.val,
                                         !.sig = signature.val], "sigcheck")
       /\ UNCHANGED << now, machine, gen, keyfiles, nextKey, nextId, files, prov, store >>

\* verify, lines 418-433: the signature is checked under self.public_key, the
\* claim is decoded.
VerifySignature(t) ==
    LET c == [call[t] EXCEPT !.key = public_key]
        decoded == JsonLoads(c.bytes)
    IN /\ call[t].pc = "sigcheck"
       /\ IF ~SignatureValid(public_key, c.sig, c.bytes)
          THEN Finish(t, c, Rejected([reason |-> SignatureReason]))
          ELSE IF decoded.exc # NoExc
          THEN Finish(t, [c EXCEPT !.checks = Append(@, "decode")],
                      HandleVerify(decoded.exc))
          ELSE Goto(t, [c EXCEPT !.checks = Append(@, "decode"), !.data = decoded.val],
                    StageAfter("decode"))
       /\ UNCHANGED << now, machine, gen, keyfiles, nextKey, nextId, files, prov, public_key, store >>

\* verify, lines 435-439: expiry
VerifyExpiry(t) ==
    LET c == [call[t] EXCEPT !.checks = Append(@, "expiry")]
        expiry_date == FromIsoFormat(c.data.expires_at)
    IN /\ call[t].pc = "expiry"
       /\ IF "expires_at" \notin DOMAIN c.data
          THEN Finish(t, c, HandleVerify(Exc("KeyError", "'expires_at'")))
          ELSE IF c.data.expires_at = "never"
          THEN Goto(t, c, StageAfter("expiry"))
          ELSE IF expiry_date.exc # NoExc
          THEN Finish(t, c, HandleVerify(expiry_date.exc))
          ELSE IF IsExpired(now, expiry_date.val)
          THEN Finish(t, [c EXCEPT !.nowRead = now],
                      Rejected([reason |-> ExpiredReason, expired_at |-> c.data.expires_at]))
          ELSE Goto(t, [c EXCEPT !.nowRead = now], StageAfter("expiry"))
       /\ UNCHANGED << now, machine, gen, keyfiles, nextKey, nextId, files, prov, public_key, store >>

\* verify, lines 441-451: machine binding
VerifyMachine(t) ==
    LET current_machine_id == GetMachineId(Machines[machine])
        license_machine_id == Get(call[t].data, "machine_id", "")
        c == [call[t] EXCEPT !.checks = Append(@, "machine"), !.midRead = current_machine_id]
    IN /\ call[t].pc = "machine"
       /\ IF ~Get(call[t].data, "machine_bound", FALSE)
          THEN Goto(t, call[t], StageAfter("machine"))
          ELSE IF MachineDiffers(current_machine_id, license_machine_id)
          THEN Finish(t, c, Rejected([reason |-> MachineReason,
                                      expected |-> Shorten(license_machine_id),
                                      actual |-> Shorten(current_machine_id)]))
          ELSE Goto(t, c, StageAfter("machine"))
       /\ UNCHANGED << now, machine, gen, keyfiles, nextKey, nextId, files, prov, public_key, store >>

\* verify, lines 453-462: the details of a valid license
VerifyAccept(t) ==
    LET c == [call[t] EXCEPT !.checks = Append(@, "accept")]
        details == ValidDetails(c.data)
    IN /\ call[t].pc = "accept"
       /\ IF details.exc # NoExc
          THEN Finish(t, c, HandleVerify(details.exc))
          ELSE Finish(t, c, Accepted(details.val))
       /\ UNCHANGED << now, machine, gen, keyfiles, nextKey, nextId, files, prov, public_key, store >>

\* The caller has the result; the thread is free for another call.
Return(t) ==
    /\ call[t].pc = "done"
    /\ call' = [call EXCEPT ![t] = IdleCall]
    /\ UNCHANGED << now, machine, gen, keyfiles, nextKey, nextId, files, prov, public_key, store >>

\* LicenseVerifier(): a fresh instance takes the place of the shared one.
NewVerifier ==
    /\ \A t \in Threads : ~InFlight(call[t])
    /\ public_key # NoKey
    /\ public_key' = NoKey
    /\ UNCHANGED << now, machine, gen, keyfiles, nextKey, nextId, files, prov, call, store >>

\* verify(license_file) run from its first statement to its return on a
\* LicenseVerifier of its own, on the content of the file, at time t on machine m.
VerifyAlone(content, t, m) ==
    LET parsed == ReadJsonFile(content)
        obj == parsed.val
        fields == ExtractFields(obj)
        loaded == LoadPemPublicKey(obj.public_key)
        license_bytes == B64Decode(obj.license)
        signature == B64Decode(obj.signature)
        decoded == JsonLoads(license_bytes.val)
        license_data == decoded.val
        expiry_date == FromIsoFormat(license_data.expires_at)
        current_machine_id == GetMachineId(m)
        license_machine_id == Get(license_data, "machine_id", "")
        details == ValidDetails(license_data)
    IN IF parsed.exc # NoExc THEN HandleVerify(parsed.exc)
       ELSE IF fields.exc # NoExc THEN HandleVerify(fields.exc)
       ELSE IF ~SealMatches(obj.integrity, obj.license, obj.signature)
       THEN Rejected([reason |-> IntegrityReason])
       ELSE IF loaded.exc # NoExc THEN HandleVerify(loaded.exc)
       ELSE IF license_bytes.exc # NoExc THEN HandleVerify(license_bytes.exc)
       ELSE IF signature.exc # NoExc THEN HandleVerify(signature.exc)
       ELSE IF ~SignatureValid(loaded.val, signature.val, license_bytes.val)
       THEN Rejected([reason |-> SignatureReason])
       ELSE IF decoded.exc # NoExc THEN HandleVerify(decoded.exc)
       ELSE IF "expires_at" \notin DOMAIN license_data
       THEN HandleVerify(Exc("KeyError", "'expires_at'"))
       ELSE IF license_data.expires_at # "never" /\ expiry_date.exc # NoExc
       THEN HandleVerify(expiry_date.exc)
       ELSE IF license_data.expires_at # "never" /\ IsExpired(t, expiry_date.val)
       THEN Rejected([reason |-> ExpiredReason, expired_at |-> license_data.expires_at])
       ELSE IF Get(license_data, "machine_bound", FALSE)
               /\ MachineDiffers(current_machine_id, license_machine_id)
       THEN Rejected([reason |-> MachineReason,
                      expected |-> Shorten(license_machine_id),
                      actual |-> Shorten(current_machine_id)])
       ELSE IF details.exc # NoExc THEN HandleVerify(details.exc)
       ELSE Accepted(details.val)

\* ------------------------------------------------------------ LicenseActivation
\* is_activated(): activation_file.exists()
IsActivated == activation.kind # "missing"

\* The record activate_license writes for the license of details.
ActivationRecord(details, t, m) ==
    [activated_at |-> IsoFormat(t),
     machine_id |-> GetMachineId(m),
     system_info |-> GetSystemInfo(m),
     license_id |-> details.license_id]

\* Mutant: the record is written whatever verify returned.
StoreAfter_Unchecked(r, t, m) ==
    JsonFile(ActivationRecord([license_id |-> Get(r.details, "license_id", "")], t, m))

\* Mutant: an existing record is kept.
StoreAfter_Keeping(r, t, m) ==
    IF ~r.ok \/ activation.kind = "json" THEN activation
    ELSE JsonFile(ActivationRecord(r.details, t, m))

\* The store after activate_license got r from verify: as it was when r is a
\* rejection (the return at line 698), else the record written over it.
StoreAfter(r, t, m) ==
    IF ~r.ok THEN activation ELSE JsonFile(ActivationRecord(r.details, t, m))

\* activate_license(license_file): verify on a LicenseVerifier of its own; on a
\* rejection False is returned, else the record is written over the store and
\* True is returned.
ActivateLicense(paths) ==
    /\ Quiet
    /\ \E path \in paths :
          LET r == VerifyAlone(files[path], now, Machines[machine])
              after == StoreAfter(r, now, Machines[machine])
          IN /\ activation' = after
             /\ act' = [act EXCEPT !.done = TRUE, !.result = r, !.ret = r.ok,
                                   !.before = activation, !.after = after,
                                   !.m = machine, !.t = now,
                                   !.prev = IF act.done /\ act.ret THEN act.m ELSE act.prev,
                                   !.succeeded = act.succeeded \/ r.ok]
    /\ UNCHANGED << now, machine, gen, keyfiles, nextKey, nextId, files, prov, public_key, call, made, probe, launch >>

\* The store in the hands of the user or of another program: it is deleted,
\* overwritten with text that is no JSON, or with the record of another license
\* on another machine.
StaleRecord ==
    JsonFile([activated_at |-> IsoFormat(0), machine_id |-> GetMachineId(Machines[2]),
              system_info |-> GetSystemInfo(Machines[2]), license_id |-> "uuid-0"])

PlantActivation ==
    /\ Quiet
    /\ \E content \in {Missing, TextFile, StaleRecord} :
          /\ content # activation
          /\ activation' = content
    /\ act' = [act EXCEPT !.planted = TRUE]
    /\ UNCHANGED << now, machine, gen, keyfiles, nextKey, nextId, files, prov, public_key, call, made, probe, launch >>

\* ------------------------------------- the generated verifier (verify_license.py)
MissingLibraryReason == "Missing cryptography library"
ScriptIntegrityReason == "Integrity check failed - license may be tampered"
ScriptMachineReason == "License not valid for this machine (machine binding mismatch)"

\* The fingerprint block of verify_license_file (every source is read under its
\* own try/except, so the block itself raises nothing).
ScriptFingerprint(m) == Ok(ScriptMachineId(m))

\* verify_license_file(license_file_path) on the content of the path, on machine
\* m at time t; has_crypto: the cryptography package can be imported.
VerifyLicenseFile(path, content, m, t, has_crypto) ==
    LET obj == content.obj
        present(f) == f \in DOMAIN obj
        loaded == LoadPemPublicKey(obj.public_key)
        license_bytes == B64Decode(obj.license)
        signature == B64Decode(obj.signature)
        decoded == JsonLoads(license_bytes.val)
        license_data == decoded.val
        expiry_date == FromIsoFormat(license_data.expires_at)
        machine_id == Get(license_data, "machine_id", "")
        current == ScriptFingerprint(m)
        reject(reason) == Rejected([reason |-> reason])
    IN IF ~has_crypto THEN reject(MissingLibraryReason)
       ELSE IF content.kind = "missing" THEN reject("License file not found: " \o path)
       ELSE IF content.kind = "binary"
       THEN reject("Verification error: 'utf-8' codec can't decode byte")
       ELSE IF content.kind = "text"
       THEN reject("Invalid license file format (JSON error): Expecting value")
       ELSE IF ~(\A f \in ArtifactFields : present(f))
       THEN reject("Invalid license file format")
       ELSE IF obj.integrity # ScriptIntegrity(obj.license, obj.signature)
       THEN reject(ScriptIntegrityReason)
       ELSE IF loaded.exc # NoExc
       THEN reject("Failed to load public key: " \o loaded.exc.msg)
       ELSE IF license_bytes.exc # NoExc
       THEN reject("Failed to decode license data: " \o license_bytes.exc.msg)
       ELSE IF signature.exc # NoExc
       THEN reject("Failed to decode license data: " \o signature.exc.msg)
       ELSE IF ~RsaVerifies(loaded.val, signature.val, license_bytes.val)
       THEN reject("Signature verification failed: ")
       ELSE IF decoded.exc # NoExc
       THEN reject("Failed to parse license data: " \o decoded.exc.msg)
       ELSE IF Get(license_data, "expires_at", NoVal) # "never"
               /\ "expires_at" \notin DOMAIN license_data
       THEN reject("Invalid expiration date: 'expires_at'")
       ELSE IF license_data.expires_at # "never" /\ expiry_date.exc # NoExc
       THEN reject("Invalid expiration date: " \o expiry_date.exc.msg)
       ELSE IF license_data.expires_at # "never" /\ t > expiry_date.val
       THEN reject("License expired on " \o license_data.expires_at)
       ELSE IF Get(license_data, "machine_bound", FALSE) /\ machine_id # ""
               /\ current.exc = NoExc /\ current.val # machine_id
       THEN reject(ScriptMachineReason)
       ELSE Accepted(license_data)

\* The generated verifier runs on a license file.
ScriptVerify(t, paths) ==
    /\ call[t].pc = "idle"
    /\ \E path \in paths, has_crypto \in BOOLEAN :
          Started(t, [IdleCall EXCEPT
                         !.pc = "done", !.impl = "script", !.path = path,
                         !.art = files[path], !.prov = prov[path],
                         !.nowRead = now, !.midRead = ScriptMachineId(Machines[machine]),
                         !.result = VerifyLicenseFile(path, files[path], Machines[machine],
                                                      now, has_crypto)])
    /\ UNCHANGED << now, machine, gen, keyfiles, nextKey, nextId, files, prov, public_key, store >>

\* Mutant: the failure branch of main prints and falls through to sys.exit(0).
ExitStatus_FallsThrough(is_valid) == 0

\* main: sys.exit(1) in the branch of "not is_valid", sys.exit(0) at the end.
ExitStatus(is_valid) == IF ~is_valid THEN 1 ELSE 0

\* main of verify_license.py run as a process with the arguments argv (the
\* script's own name left out).  A relative path that does not exist is looked
\* up in the directory above the script's, which holds parent_license under
\* that name.  What is kept: the arguments, the file verify_license_file was
\* called on and what it returned, the last line printed before the process
\* exits, and the exit status.
ScriptMain(t, paths, parents) ==
    /\ call[t].pc = "idle"
    /\ \E argv \in {<< >>} \cup {<< path >> : path \in paths},
          parent_license \in parents, has_crypto \in BOOLEAN :
          LET c0 == [IdleCall EXCEPT !.pc = "done", !.impl = "main", !.argv = argv,
                                     !.nowRead = now,
                                     !.midRead = ScriptMachineId(Machines[machine])]
          IN IF Len(argv) < 1
             THEN Started(t, [c0 EXCEPT !.exit = 1,
                                        !.printed = "Usage: verify_license.py <license_file>"])
             ELSE LET given == argv[1]
                      in_parent == files[given].kind = "missing"
                                   /\ parent_license.kind # "missing"
                      license_file == IF in_parent THEN "../" \o given ELSE given
                      content == IF in_parent THEN parent_license ELSE files[given]
                      r == VerifyLicenseFile(license_file, content, Machines[machine],
                                             now, has_crypto)
                  IN Started(t, [c0 EXCEPT
                                    !.path = license_file, !.art = content,
                                    !.prov = IF in_parent THEN NoProv ELSE prov[given],
                                    !.result = r,
                                    !.exit = ExitStatus(r.ok),
                                    !.printed = IF ~r.ok
                                                THEN "License validation failed: "
                                                        \o r.details.reason
                                                ELSE "Expires: " \o
                                                     Get(r.details, "expires_at", "Never")])
    /\ UNCHANGED << now, machine, gen, keyfiles, nextKey, nextId, files, prov, public_key, store >>

\* ------------------------------------------- run.sh and the container entrypoint
\* The exit status of a command that is not found.
NotFoundStatus == 127

\* Mutant: the block after || is empty, the script goes on after a failure.
Proceeds_Always(status) == TRUE

\* command || { ...; exit 1; }: the script goes on when the command exited 0.
Proceeds(status) == status = 0

Launchers == {"run.sh", "entrypoint"}

\* What an optional helper script does: it is not in the bundle, it passes, it
\* fails.
HelperOutcomes == {"absent", "pass", "fail"}

LaunchFrame ==
    UNCHANGED << now, machine, gen, keyfiles, nextKey, nextId, files, prov, public_key, call,
                 activation, act, made, probe >>

Exit(l, status) == launch' = [l EXCEPT !.pc = "exited", !.status = status]

\* The launcher is started.
Launch ==
    /\ launch.pc = "idle"
    /\ \E kind \in Launchers : launch' = [NoLaunch EXCEPT !.kind = kind, !.pc = "precheck"]
    /\ LaunchFrame

\* run.sh step 1: verify_integrity.py if it is there; the entrypoint's
\* anti-tamper check: anti_debug.py if it is there.
LaunchPrecheck ==
    /\ launch.pc = "precheck"
    /\ \E helper \in HelperOutcomes :
          IF helper = "fail" THEN Exit(launch, 1)
          ELSE launch' = [launch EXCEPT !.pc = "license"]
    /\ LaunchFrame

\* run.sh step 2 with verify_license.sh, and the entrypoint's license block:
\* the license file must exist, and verify_license.py, run on its absolute path
\* with the python there is, must exit 0.  wrapper: verify_license.sh is in the
\* bundle; python: an interpreter is found.
LaunchLicense(paths) ==
    /\ launch.pc = "license"
    /\ \E path \in paths, wrapper \in BOOLEAN, python \in BOOLEAN, has_crypto \in BOOLEAN :
          LET r == VerifyLicenseFile(path, files[path], Machines[machine], now, has_crypto)
              status == IF python THEN ExitStatus(r.ok) ELSE NotFoundStatus
              l == [launch EXCEPT !.checked = TRUE]
          IN IF launch.kind = "run.sh" /\ ~wrapper
             THEN Exit(l, 1)
             ELSE IF files[path].kind = "missing"
             THEN Exit(l, 1)
             ELSE LET l1 == [l EXCEPT !.seen = TRUE, !.py_exit = status,
                                      !.accepted = python /\ r.ok]
                  IN IF Proceeds(status)
                     THEN launch' = [l1 EXCEPT !.pc = "post"]
                     ELSE Exit(l1, 1)
    /\ LaunchFrame

\* run.sh step 3: load_images.sh if it is there; the entrypoint's integrity
\* check: verify_integrity.py if it is there.
LaunchPost ==
    /\ launch.pc = "post"
    /\ \E helper \in HelperOutcomes :
          IF helper = "fail" THEN Exit(launch, 1)
          ELSE launch' = [launch EXCEPT !.pc = "start",
                                        !.loaded = launch.kind = "run.sh" /\ helper = "pass"]
    /\ LaunchFrame

\* run.sh step 4: docker-compose up -d (up: the compose file is there and the
\* command succeeds); the entrypoint: exec "$@".
LaunchStart ==
    /\ launch.pc = "start"
    /\ \E up \in BOOLEAN :
          IF launch.kind = "run.sh"
          THEN IF up THEN launch' = [launch EXCEPT !.pc = "exited", !.status = 0,
                                                   !.started = TRUE]
               ELSE Exit(launch, 1)
          ELSE launch' = [launch EXCEPT !.pc = "running", !.started = TRUE]
    /\ LaunchFrame

\* The launcher has exited or the application has ended; it can be started
\* again.
LaunchOver ==
    /\ launch.pc \in {"exited", "running"}
    /\ launch' = NoLaunch
    /\ LaunchFrame

LaunchSteps(paths) ==
    \/ LaunchPrecheck
    \/ LaunchLicense(paths)
    \/ LaunchPost
    \/ LaunchStart
    \/ LaunchOver

\* ------------------------------------------------------------ specifications
\* One verifying thread.  Licenses are issued, replaced and forged; the clock
\* and the machine change between calls.
MainPaths == {"a.key"}

VerifySteps(t) ==
    \/ VerifyLoadKey(t)
    \/ VerifySignature(t)
    \/ VerifyExpiry(t)
    \/ VerifyMachine(t)
    \/ VerifyAccept(t)
    \/ Return(t)

Next ==
    \/ Tick
    \/ ChangeMachine
    \/ IssueLicense(MainPaths, ExpiresInputs, BOOLEAN, DroppedFields)
    \/ ReplaceFile(MainPaths)
    \/ ForgeFile(MainPaths)
    \/ VerifyOpen(1, MainPaths)
    \/ ScriptVerify(1, MainPaths)
    \/ VerifySteps(1)

Spec == Init /\ [][Next]_vars

\* One verifying thread.  Licenses are issued as create_license builds them, and
\* the fields of the written file are edited.
NextTamper ==
    \/ IssueLicense(MainPaths, {NoVal, IsoFormat(1)}, BOOLEAN, {})
    \/ EditField(MainPaths)
    \/ RemoveField(MainPaths)
    \/ VerifyOpen(1, MainPaths)
    \/ VerifySteps(1)

SpecTamper == Init /\ [][NextTamper]_vars

\* One verifying thread, on machines of every kind.  Machine-bound licenses that
\* never expire are issued and verified by verify and by the generated verifier.
NextHosts ==
    \/ MoveTo(HostIds)
    \/ IssueLicense(MainPaths, {NoVal}, {TRUE}, {})
    \/ VerifyOpen(1, MainPaths)
    \/ ScriptVerify(1, MainPaths)
    \/ VerifySteps(1)

SpecHosts == Init /\ [][NextHosts]_vars

\* The activation store.  Licenses, machine-bound or not, are issued as
\* create_license builds them and activated as time passes and the machine
\* changes; the store is also written by other hands.
NextAct ==
    \/ Tick
    \/ ChangeMachine
    \/ IssueLicense(MainPaths, {NoVal}, BOOLEAN, {})
    \/ ActivateLicense(MainPaths)
    \/ PlantActivation

SpecAct == Init /\ [][NextAct]_vars

\* One verifying thread next to the activation store: verify runs while the
\* store is absent, holds a record, a stale record or text that is no JSON.
NextStore ==
    \/ ChangeMachine
    \/ IssueLicense(MainPaths, {NoVal}, {TRUE}, {})
    \/ ActivateLicense(MainPaths)
    \/ PlantActivation
    \/ VerifyOpen(1, MainPaths)
    \/ VerifySteps(1)

SpecStore == Init /\ [][NextStore]_vars

\* create_license alone, called again and again as time passes and the machine
\* changes.
NextCreate ==
    \/ Tick
    \/ ChangeMachine
    \/ CreateClaim

SpecCreate == Init /\ [][NextCreate]_vars

\* get_machine_id alone, in every descriptor state, twice, as time passes.
NextProbe ==
    \/ Tick
    \/ FirstProbe
    \/ SecondProbe

SpecProbe == Init /\ [][NextProbe]_vars

\* The generated verifier run as a process on licenses that are issued,
\* replaced and forged, at several times and on two machines.  The directory
\* above the script's holds no license, text that is no JSON, or a license that
\* verifies at any time on any machine.
ParentLicenses == {Missing, TextFile, ForgedArtifact(1, JsonDumps(ForgedClaim), "none")}

NextMain ==
    \/ Tick
    \/ ChangeMachine
    \/ IssueLicense(MainPaths, {NoVal, IsoFormat(1)}, BOOLEAN, {})
    \/ ReplaceFile(MainPaths)
    \/ ForgeFile(MainPaths)
    \/ ScriptMain(1, MainPaths, ParentLicenses)
    \/ Return(1)

SpecMain == Init /\ [][NextMain]_vars

\* write_license on output paths with and without '.key' in them; the files
\* written are verified.
NextWrite ==
    \/ Tick
    \/ IssueLicense(LicensePaths, {NoVal}, {FALSE}, {})
    \/ VerifyOpen(1, LicensePaths)
    \/ VerifySteps(1)

SpecWrite == Init /\ [][NextWrite]_vars

\* Generator instances that follow one another on the same key files: keys are
\* generated (wholly, or interrupted between the two writes) and loaded, and
\* licenses are signed and verified.
NextKeys ==
    \/ GenerateKeys
    \/ GenerateKeysInterrupted
    \/ NewGenerator
    \/ LoadKeys
    \/ IssueLicense(MainPaths, {NoVal}, {FALSE}, {})
    \/ VerifyOpen(1, MainPaths)
    \/ VerifySteps(1)

SpecKeys == Init /\ [][NextKeys]_vars

\* The launchers run on licenses that are issued and replaced, as time passes
\* and the machine changes.
NextLaunch ==
    \/ Tick
    \/ ChangeMachine
    \/ IssueLicense(MainPaths, {NoVal, IsoFormat(1)}, BOOLEAN, {})
    \/ ReplaceFile(MainPaths)
    \/ Launch
    \/ LaunchSteps(MainPaths)

SpecLaunch == Init /\ [][NextLaunch]_vars

\* Two threads call verify on one LicenseVerifier instance; licenses are issued
\* under two key pairs.  Thread 2 starts a call only while thread 1 holds one
\* (the threads are interchangeable).
ConcPaths == {"a.key", "b.key"}

NextConc ==
    \/ ChangeMachine
    \/ GenerateKeys
    \/ LoadKeys
    \/ IssueLicense(ConcPaths, {NoVal}, BOOLEAN, {})
    \/ NewVerifier
    \/ VerifyOpen(1, ConcPaths)
    \/ (call[1].pc # "idle" /\ VerifyOpen(2, ConcPaths))
    \/ \E t \in Threads : VerifySteps(t)

SpecConc == Init /\ [][NextConc]_vars

\* ===================================================================== claims
DoneVerify(t) == call[t].pc = "done" /\ call[t].impl = "verify"
DoneScript(t) == call[t].pc = "done" /\ call[t].impl = "script"

\* The reason of a rejection ("" for a result that is none).
Reason(r) == IF ~r.ok /\ ~r.raised THEN r.details.reason ELSE ""

\* The call ran the check named stage.
Ran(c, stage) == \E i \in 1..Len(c.checks) : c.checks[i] = stage

\* The call decoded the claim (license_data is set).
Decoded(c) ==
    c.impl = "verify"
    /\ (c.pc \in {"expiry", "machine", "accept"}
        \/ Ran(c, "expiry") \/ Ran(c, "machine") \/ Ran(c, "accept"))

\* The content was written by write_license from sign_license's output.
Signed(pv) == pv.origin \in {"created", "crafted"}

\* ---- what an artifact is, read off its content (the reference the checks of
\* ---- verify are compared with)
ParseFails(art) ==
    art.kind # "json" \/ ~(ArtifactFields \subseteq DOMAIN art.obj)
SealFails(art) ==
    art.obj.integrity # CalculateIntegrity(art.obj.license, art.obj.signature)
SignatureFails(art) ==
    \/ LoadPemPublicKey(art.obj.public_key).exc # NoExc
    \/ ~art.obj.license.ok
    \/ ~art.obj.signature.ok
    \/ ~RsaVerifies(LoadPemPublicKey(art.obj.public_key).val,
                    art.obj.signature.bytes, art.obj.license.bytes)
DecodeFails(art) == art.obj.license.bytes.kind # "json"
ClaimOf(art) == JsonLoads(art.obj.license.bytes).val
PastExpiry(claim, t) ==
    /\ "expires_at" \in DOMAIN claim
    /\ claim.expires_at # "never"
    /\ FromIsoFormat(claim.expires_at).exc = NoExc
    /\ t > FromIsoFormat(claim.expires_at).val
ExpiryFails(claim, t) ==
    \/ "expires_at" \notin DOMAIN claim
    \/ claim.expires_at # "never" /\ FromIsoFormat(claim.expires_at).exc # NoExc
    \/ PastExpiry(claim, t)
Bound(claim) == "machine_bound" \in DOMAIN claim /\ claim.machine_bound
OtherMachine(claim, m) ==
    Bound(claim) /\ GetMachineId(Machines[m]) # Get(claim, "machine_id", "")
DetailsFail(claim) ==
    \E i \in 1..Len(ReturnedFields) : ReturnedFields[i] \notin DOMAIN claim

\* The first check, in the order parse, seal, signature, decode, expiry, machine
\* (then the building of the details), that fails for the artifact at time t on
\* machine m; "none" when none does.
FirstFailure(art, t, m) ==
    IF ParseFails(art) THEN "parse"
    ELSE IF SealFails(art) THEN "seal"
    ELSE IF SignatureFails(art) THEN "signature"
    ELSE IF DecodeFails(art) THEN "decode"
    ELSE IF ExpiryFails(ClaimOf(art), t) THEN "expiry"
    ELSE IF OtherMachine(ClaimOf(art), m) THEN "machine"
    ELSE IF DetailsFail(ClaimOf(art)) THEN "accept"
    ELSE "none"

CheckOrder == << "parse", "seal", "signature", "decode", "expiry", "machine", "accept" >>

\* s is CheckOrder cut after some check, the machine check possibly left out
InCheckOrder(s) ==
    \E n \in 0..Len(CheckOrder) :
       \/ s = SubSeq(CheckOrder, 1, n)
       \/ s = SelectSeq(SubSeq(CheckOrder, 1, n), LAMBDA x : x # "machine")

Last(s) == s[Len(s)]

\* C1: an artifact written from sign_license's output in which one of the fields
\* license, signature, integrity was then changed is never accepted by verify:
\* it is rejected with the integrity reason or the signature reason.
C1_TamperedRejected ==
    \A t \in Threads :
       (/\ DoneVerify(t)
        /\ Signed(call[t].prov)
        /\ Len(call[t].prov.edits) = 1
        /\ call[t].prov.edits[1] \in {"license", "signature", "integrity"})
       => /\ ~call[t].result.ok
          /\ ~call[t].result.raised
          /\ Reason(call[t].result) \in {IntegrityReason, SignatureReason}

\* C1 witness: the signature text was respelled (it decodes to the same
\* signature bytes) and verify rejected the file on the seal.
C1_Witness ==
    \E t \in Threads :
       /\ DoneVerify(t)
       /\ Signed(call[t].prov)
       /\ call[t].prov.edits = << "signature" >>
       /\ call[t].art.obj.signature.ok
       /\ call[t].art.obj.signature.variant = 1
       /\ RsaVerifies(1, call[t].art.obj.signature.bytes, call[t].art.obj.license.bytes)
       /\ Reason(call[t].result) = IntegrityReason

\* The claim is neither past its expiry at time t nor bound to another machine
\* than m, and its expiry is "never" or a timestamp.
ValidAt(claim, t, m) ==
    /\ claim.expires_at = "never" \/ FromIsoFormat(claim.expires_at).exc = NoExc
    /\ ~PastExpiry(claim, t)
    /\ ~OtherMachine(claim, m)

\* C2: round trip.  A claim built by create_license, signed by sign_license and
\* written unchanged, that is not expired and (if bound) was issued on this
\* machine, is accepted by verify, and every field verify returns (license_id,
\* product_id, client, issued_at, expires_at, machine_bound, features) has the
\* value it has in the claim.
C2_RoundTrip ==
    \A t \in Threads :
       (/\ DoneVerify(t)
        /\ call[t].prov.origin = "created"
        /\ call[t].prov.edits = << >>
        /\ ValidAt(call[t].prov.claim, now, machine))
       => /\ call[t].result.ok
          /\ DOMAIN call[t].result.details =
                {ReturnedFields[i] : i \in 1..Len(ReturnedFields)} \cup {"features"}
          /\ \A f \in DOMAIN call[t].result.details :
                call[t].result.details[f] = call[t].prov.claim[f]

\* C2 witness: a machine-bound claim with an expiry, accepted on the issuing
\* machine at the very instant of its expiry.
C2_Witness ==
    \E t \in Threads :
       /\ DoneVerify(t)
       /\ call[t].prov.origin = "created"
       /\ call[t].prov.edits = << >>
       /\ call[t].prov.claim.machine_bound
       /\ call[t].prov.claim.expires_at = IsoFormat(now)
       /\ call[t].result.ok
       /\ call[t].result.details.expires_at = IsoFormat(now)

\* C3: verify runs its checks in the order parse, seal, signature, decode,
\* expiry, machine and stops at the first that fails: the check a rejected call
\* stopped in is the first check that fails for the artifact, with that check's
\* reason, and an accepted artifact fails none.
C3_FirstFailureWins ==
    \A t \in Threads :
       DoneVerify(t) =>
          LET c == call[t]
              first == FirstFailure(c.art, now, machine)
          IN /\ InCheckOrder(c.checks)
             /\ c.result.ok <=> first = "none"
             /\ ~c.result.ok => Last(c.checks) = first
             /\ first = "seal" => Reason(c.result) = IntegrityReason
             /\ (first = "expiry" /\ PastExpiry(ClaimOf(c.art), now))
                   => Reason(c.result) = ExpiredReason
             /\ first = "machine" => Reason(c.result) = MachineReason

\* C3 witness: an artifact both expired and bound to another machine, rejected
\* as expired.
C3_Witness ==
    \E t \in Threads :
       /\ DoneVerify(t)
       /\ FirstFailure(call[t].art, now, machine) = "expiry"
       /\ PastExpiry(ClaimOf(call[t].art), now)
       /\ OtherMachine(ClaimOf(call[t].art), machine)
       /\ Reason(call[t].result) = ExpiredReason

\* C4: whenever verify holds a decoded claim (so in every run that reaches the
\* expiry or the machine check), the seal of the artifact matched, the signature
\* verified under the artifact's own public key over the bytes of the license
\* field, and the decoded claim is the decoding of exactly these bytes.
C4_NothingReadBeforeChecks ==
    \A t \in Threads :
       Decoded(call[t]) =>
          LET c == call[t]
          IN /\ ~SealFails(c.art)
             /\ c.bytes = B64Decode(c.art.obj.license).val
             /\ c.key = LoadPemPublicKey(c.art.obj.public_key).val
             /\ RsaVerifies(c.key, c.sig, c.bytes)
             /\ c.data = JsonLoads(c.bytes).val

\* C4 witness: a call at its machine check, holding the claim of a bound license.
C4_Witness ==
    \E t \in Threads :
       /\ call[t].pc = "machine"
       /\ call[t].data.machine_bound
       /\ "machine_id" \in DOMAIN call[t].data

\* C5: machine binding.  An accepted machine-bound claim carries the fingerprint
\* of the current machine; a machine-bound claim that passed the checks before
\* the machine check and carries another machine_id, or none, is rejected with
\* the machine reason; for a claim that is not machine-bound the fingerprint is
\* not compared and the machine reason is never given.
C5_MachineBinding ==
    \A t \in Threads :
       (DoneVerify(t) /\ Decoded(call[t])) =>
          LET c == call[t]
              current == GetMachineId(Machines[machine])
          IN /\ (c.result.ok /\ Bound(c.data))
                   => /\ Ran(c, "machine")
                      /\ c.midRead = current
                      /\ "machine_id" \in DOMAIN c.data
                      /\ c.data.machine_id = current
             /\ (~ExpiryFails(c.data, now) /\ OtherMachine(c.data, machine))
                   => Reason(c.result) = MachineReason
             /\ ~Bound(c.data)
                   => ~Ran(c, "machine") /\ Reason(c.result) # MachineReason

\* C5 witness: a signed machine-bound claim without machine_id, rejected with
\* the machine reason.
C5_Witness ==
    \E t \in Threads :
       /\ DoneVerify(t)
       /\ Decoded(call[t])
       /\ Bound(call[t].data)
       /\ "machine_id" \notin DOMAIN call[t].data
       /\ Reason(call[t].result) = MachineReason

\* C6: expiry.  A call that decoded the claim rejects it as expired exactly when
\* expires_at is a timestamp (so not "never") and the current time is strictly
\* greater; the rejection carries the claim's expires_at.
C6_Expiry ==
    \A t \in Threads :
       (DoneVerify(t) /\ Decoded(call[t])) =>
          LET c == call[t]
          IN /\ Reason(c.result) = ExpiredReason <=> PastExpiry(c.data, now)
             /\ Reason(c.result) = ExpiredReason
                   => c.result.details.expired_at = c.data.expires_at
             /\ ("expires_at" \in DOMAIN c.data /\ c.data.expires_at \in {"never", IsoFormat(now)})
                   => Reason(c.result) # ExpiredReason

\* C6 witness: a claim verified at the very instant of its expiry, accepted.
C6_Witness ==
    \E t \in Threads :
       /\ DoneVerify(t)
       /\ Decoded(call[t])
       /\ "expires_at" \in DOMAIN call[t].data
       /\ call[t].data.expires_at = IsoFormat(now)
       /\ call[t].nowRead = now
       /\ call[t].result.ok

\* C7: verify never raises and is fail-closed: every call returns, a call that
\* does not accept returns a reason, and a call accepts only after every check
\* ran and none of them fails for the artifact.
C7_NeverRaisesFailClosed ==
    \A t \in Threads :
       DoneVerify(t) =>
          LET c == call[t]
          IN /\ ~c.result.raised
             /\ ~c.result.ok
                   => "reason" \in DOMAIN c.result.details /\ c.result.details.reason # ""
             /\ c.result.ok
                   => /\ c.checks \in {CheckOrder,
                                       SelectSeq(CheckOrder, LAMBDA x : x # "machine")}
                      /\ FirstFailure(c.art, now, machine) = "none"

\* C7 witness: the expiry of a signed claim is no ISO timestamp; the exception
\* of the expiry check comes back as a rejection.
C7_Witness ==
    \E t \in Threads :
       /\ DoneVerify(t)
       /\ Last(call[t].checks) = "expiry"
       /\ Reason(call[t].result) = ErrorReason \o "Invalid isoformat string: '31/12/2030'"

\* C8: the generated verifier accepts a machine-bound claim only if the claim
\* carries a machine_id and the fingerprint computed on the current machine
\* equals it.
C8_ScriptFailClosed ==
    \A t \in Threads :
       (DoneScript(t) /\ call[t].result.ok /\ Bound(call[t].result.details))
       => /\ Get(call[t].result.details, "machine_id", "") # ""
          /\ call[t].result.details.machine_id = call[t].midRead

\* C9: each verify call checks the signature under the public key of its own
\* artifact and returns the decision it returns alone, however the calls of two
\* threads on one instance interleave.
C9_CallsIndependent ==
    \A t \in Threads :
       DoneVerify(t) =>
          LET c == call[t]
          IN /\ (Ran(c, "signature") /\ c.key # NoKey)
                   => c.key = LoadPemPublicKey(c.art.obj.public_key).val
             /\ c.result.ok <=> FirstFailure(c.art, now, machine) = "none"

\* C10: two verify calls that ran one after the other on the same artifact, on
\* the same machine at the same time, return the same decision and reason,
\* whatever was verified in between and whether or not the instance is fresh.
C10_Idempotent ==
    \A t, u \in Threads :
       (/\ t # u
        /\ DoneVerify(t) /\ DoneVerify(u)
        /\ ~call[t].overlap /\ ~call[u].overlap
        /\ call[t].art = call[u].art)
       => call[t].result = call[u].result

\* C10 witness: two calls in sequence on one signed license, both accepted.
C10_Witness ==
    \E t, u \in Threads :
       /\ t # u
       /\ DoneVerify(t) /\ DoneVerify(u)
       /\ ~call[t].overlap /\ ~call[u].overlap
       /\ call[t].art = call[u].art
       /\ call[t].art.kind = "json"
       /\ call[t].result.ok /\ call[u].result.ok

\* C11: the outcomes of the parse step of verify: a missing file gives the
\* not-found reason; a file that is no JSON text, or a JSON object lacking one of
\* license, signature, public_key, integrity, gives the malformed-file reason
\* (the same for both); no later check is run.
C11_ParseOutcomes ==
    \A t \in Threads :
       (DoneVerify(t) /\ ParseFails(call[t].art)) =>
          /\ call[t].checks = << "parse" >>
          /\ call[t].art.kind = "missing" => Reason(call[t].result) = NotFoundReason
          /\ call[t].art.kind # "missing" => Reason(call[t].result) = FormatReason

\* C12: an artifact whose seal and signature are valid but whose signed bytes
\* decode to no claim is rejected, with a reason other than the one an
\* unparseable license file gets.
C12_MalformedClaimDistinct ==
    \A t \in Threads :
       (/\ DoneVerify(t)
        /\ FirstFailure(call[t].art, now, machine) = "decode")
       => /\ ~call[t].result.ok
          /\ Last(call[t].checks) = "decode"
          /\ Reason(call[t].result) # FormatReason

\* text holds part somewhere in it
Contains(text, part) ==
    \E i \in 1..(Len(text) - Len(part) + 1) : SubSeq(text, i, i + Len(part) - 1) = part

\* The fingerprints a call has at hand: the one of the current machine and the
\* one embedded in the claim it decoded.
FingerprintsOf(c) ==
    {GetMachineId(Machines[machine])}
    \cup (IF Decoded(c) /\ "machine_id" \in DOMAIN c.data THEN {c.data.machine_id} ELSE {})

\* C13: no rejection of verify carries a whole machine fingerprint: no detail
\* holds the digest of the current machine or the machine_id of the claim, and
\* the machine rejection reports both as their first 16 characters at most.
C13_NoFullFingerprint ==
    \A t \in Threads :
       (DoneVerify(t) /\ ~call[t].result.ok) =>
          LET c == call[t]
              details == c.result.details
          IN /\ \A f \in DOMAIN details, fp \in FingerprintsOf(c) :
                   ~Contains(details[f], fp)
             /\ Reason(c.result) = MachineReason
                   => /\ Len(details.expected) <= FingerprintCut + Len("...")
                      /\ Len(details.actual) <= FingerprintCut + Len("...")
                      /\ details.actual =
                            Prefix(GetMachineId(Machines[machine]), FingerprintCut) \o "..."

\* C13 witness: a license bound to another machine state, rejected with the
\* first 16 characters of the two fingerprints, each longer than that.
C13_Witness ==
    \E t \in Threads :
       /\ DoneVerify(t)
       /\ Reason(call[t].result) = MachineReason
       /\ "machine_id" \in DOMAIN call[t].data
       /\ Len(call[t].data.machine_id) > FingerprintCut
       /\ Len(GetMachineId(Machines[machine])) > FingerprintCut
       /\ call[t].result.details.expected =
             Prefix(call[t].data.machine_id, FingerprintCut) \o "..."

\* The seal as the specification of the format gives it: SHA-256 of (SHA-512 of
\* (SHA-256 of (license ':' signature + salt) + salt) + salt).
SealOf(license_b64, signature_b64) ==
    HashSha256(HashSha512(HashSha256(Combined(license_b64, ":", signature_b64),
                                     IntegritySalt), IntegritySalt), IntegritySalt)

\* The license paths that hold an object with a license and a signature field.
Sealable == {p \in LicensePaths :
                files[p].kind = "json" /\ {"license", "signature"} \subseteq DOMAIN files[p].obj}

\* C14: the generator, the verifier and the generated verifier compute one and
\* the same seal, the SHA-256 / SHA-512 / SHA-256 chain over license ':'
\* signature with the fixed salt; the seal the generator wrote into a file is the
\* one the verifier computes for it at any later time, on any machine, whatever
\* key the verifier instance holds.
C14_OneSeal ==
    \A p \in Sealable :
       LET obj == files[p].obj
       IN /\ GeneratorCalculateIntegrity(obj.license, obj.signature)
                = SealOf(obj.license, obj.signature)
          /\ CalculateIntegrity(obj.license, obj.signature)
                = SealOf(obj.license, obj.signature)
          /\ ScriptIntegrity(obj.license, obj.signature)
                = SealOf(obj.license, obj.signature)
          /\ (Signed(prov[p]) /\ prov[p].edits = << >>)
                => /\ obj.integrity = CalculateIntegrity(obj.license, obj.signature)
                   /\ obj.integrity = ScriptIntegrity(obj.license, obj.signature)

\* C14 witness: a written license at a later time, on another machine, after the
\* verifier instance loaded a key.
C14_Witness ==
    \E p \in Sealable :
       /\ Signed(prov[p])
       /\ prov[p].claim.issued_at # IsoFormat(now)
       /\ Bound(prov[p].claim)
       /\ "machine_id" \in DOMAIN prov[p].claim
       /\ prov[p].claim.machine_id # GetMachineId(Machines[machine])
       /\ public_key # NoKey

\* The call was given a license as create_license built it, written unchanged.
Pristine(c) == c.prov.origin = "created" /\ c.prov.edits = << >>

\* C15: on every machine the generated verifier computes the fingerprint
\* get_machine_id computes, so it accepts a machine-bound license on the machine
\* create_license issued it on.
C15_SameFingerprint ==
    /\ ScriptMachineId(Machines[machine]) = GetMachineId(Machines[machine])
    /\ \A t \in Threads :
          (/\ DoneScript(t)
           /\ Pristine(call[t])
           /\ ValidAt(call[t].prov.claim, now, machine)
           /\ Reason(call[t].result) # MissingLibraryReason)
          => call[t].result.ok

\* C16: the activation store takes no part in verify.  The decision of every
\* verify call is fixed by the artifact, the time and the machine alone (the
\* first failing check of the artifact, read off its content), whether the store
\* is absent, holds a record, a stale record or text that is no JSON; and no step
\* of a verify call (each moves the call's position) changes the store.
C16_StoreNotConsulted ==
    /\ [](\A t \in Threads :
             DoneVerify(t) =>
                (call[t].result.ok <=> FirstFailure(call[t].art, now, machine) = "none"))
    /\ [][(\E t \in Threads : call'[t].pc # call[t].pc) => activation' = activation]_vars

\* C16 witness: a license bound to another machine is rejected by verify while
\* the store holds the record of a successful activation.
C16_Witness ==
    /\ DoneVerify(1)
    /\ Reason(call[1].result) = MachineReason
    /\ act.succeeded
    /\ activation.kind = "json"
    /\ activation # StaleRecord

\* C17: an activation record is written only after a successful verification.
\* activate_license returns True exactly when the verify of that call accepted;
\* when it rejected, False is returned and the store is as it was before the call
\* (absent stays absent, an existing content is not modified); when it accepted,
\* the store holds the record of the verified license.  Hence a store that no
\* other hand wrote exists only after some call verified a license successfully.
C17_WrittenOnlyAfterSuccess ==
    /\ act.done =>
          /\ act.ret <=> act.result.ok
          /\ ~act.result.ok => act.after = act.before
          /\ act.result.ok =>
                /\ act.after.kind = "json"
                /\ act.after.obj.license_id = act.result.details.license_id
    /\ (IsActivated /\ ~act.planted) => act.succeeded

\* C17 witness: a call rejected the license (bound to another machine) and left the record of an earlier activation in place.
C17_Witness ==
    /\ act.done
    /\ ~act.ret
    /\ Reason(act.result) = MachineReason
    /\ act.before.kind = "json"
    /\ act.after = act.before
    /\ activation = act.after
    /\ ~act.planted

\* C18: recording an activation overwrites and is idempotent.  After a
\* successful activate_license the store is one JSON object of the four fields
\* activated_at, machine_id, system_info, license_id, whatever it held before;
\* its license_id is that of the license this call verified, its machine_id the
\* fingerprint of the machine at the call, and it stays the content of the store
\* until another hand writes it.  When the store held the record of the same
\* license, written by the call before on the machine in this same state, the
\* new record differs from it in activated_at at most.
C18_OverwritingIdempotent ==
    (act.done /\ act.ret) =>
       LET rec == act.after.obj
           old == act.before.obj
       IN /\ act.after.kind = "json"
          /\ DOMAIN rec = {"activated_at", "machine_id", "system_info", "license_id"}
          /\ rec.license_id = act.result.details.license_id
          /\ rec.machine_id = GetMachineId(Machines[act.m])
          /\ rec.activated_at = IsoFormat(act.t)
          /\ activation # act.after => act.planted
          /\ (/\ act.before.kind = "json"
              /\ act.before # StaleRecord
              /\ old.license_id = rec.license_id
              /\ act.prev = act.m)
                => [old EXCEPT !.activated_at = rec.activated_at] = rec

\* C18 witness: the same license activated a second time, later, on the machine
\* of the first activation: the record is rewritten with the new time.
C18_Witness ==
    /\ act.done /\ act.ret
    /\ act.before.kind = "json"
    /\ act.before # StaleRecord
    /\ act.before.obj.license_id = act.after.obj.license_id
    /\ act.prev = act.m
    /\ act.before.obj.activated_at # act.after.obj.activated_at
    /\ activation = act.after

\* C19: every claim create_license returned carries machine_id and system_info
\* exactly when machine_bound was true (the fingerprint and the descriptors of
\* the machine of the call; an unbound claim is the same on every machine), has
\* expires_at "never" when no expires was given and the given expires otherwise,
\* and has a license_id no other created claim has.
C19_CreateLicense ==
    /\ \A i \in 1..Len(made) :
          LET e == made[i]
          IN /\ "machine_id" \in DOMAIN e.claim <=> e.machine_bound
             /\ "system_info" \in DOMAIN e.claim <=> e.machine_bound
             /\ e.machine_bound =>
                   /\ e.claim.machine_id = GetMachineId(Machines[e.m])
                   /\ e.claim.system_info = GetSystemInfo(Machines[e.m])
             /\ ~e.machine_bound =>
                   \A h \in HostIds :
                      CreateLicense(e.id, e.product_id, e.client, e.expires,
                                    e.machine_bound, e.features, Machines[h], e.t) = e.claim
             /\ e.claim.expires_at = (IF e.expires = NoVal THEN "never" ELSE e.expires)
    /\ \A i, j \in 1..Len(made) :
          i # j => made[i].claim.license_id # made[j].claim.license_id

\* C20: sign_license produces no signed artifact when no usable key pair is
\* loaded: no step taken while the generator holds no private key and neither
\* key file exists writes a license signed by sign_license.
C20_KeyUnavailable ==
    [][~(/\ gen.private_key = NoKey
         /\ keyfiles.private = NoKey
         /\ keyfiles.public = NoKey
         /\ \E p \in LicensePaths :
               /\ files'[p] # files[p]
               /\ prov'[p].origin = "created"
               /\ files'[p].kind = "json"
               /\ files'[p].obj.public_key = PublicPem(gen'.public_key))]_vars

\* C21: sign_license has no side effect beyond returning the artifact.  In every
\* step in which a claim is signed and the artifact written by the caller,
\* whatever key state the step starts from, the two key files are after the step
\* what they were before it.
C21_SignNoSideEffect ==
    [][(\E p \in LicensePaths :
           /\ prov'[p] # prov[p]
           /\ Signed(prov'[p])
           /\ files'[p].kind = "json")
       => keyfiles' = keyfiles]_vars

\* The descriptors in the order the specification gives: hostname, the one
\* persistent machine identifier of the operating system, the hardware address;
\* the node id after them when they are fewer than two and a node id is there;
\* the platform strings when there is none at all.
OsIdentifier(m) ==
    IF m.system = "Linux" THEN m.machine_id_file
    ELSE IF m.system = "Windows" THEN m.win_guid
    ELSE IF m.system = "Darwin" THEN m.mac_uuid
    ELSE NoVal

PriorityDescriptors(m) ==
    LET first == Opt(m.hostname) \o Opt(OsIdentifier(m)) \o Opt(GetMacAddress(m))
        withNode == IF Len(first) < 2 /\ m.node # 0
                    THEN first \o << ToString(m.node) >> ELSE first
    IN IF Len(withNode) = 0
       THEN << m.pl_node, m.pl_machine,
               IF m.pl_processor # "" THEN Prefix(m.pl_processor, ProcessorCut)
               ELSE "unknown" >>
       ELSE withNode

\* C22: on every machine state the fingerprint get_machine_id returns is the
\* hash of the descriptors joined in the fixed order hostname, OS machine
\* identifier, hardware address, with nothing else in between, the node id
\* appended when fewer than two were obtained, the platform strings when none.
C22_DescriptorOrder ==
    GetMachineId(Machines[machine]) = Sha256Hex(Join(PriorityDescriptors(Machines[machine])))

\* d is what hashlib.sha256(...).hexdigest() returned
IsDigest(d) == d # NoVal /\ Len(d) > 8 /\ SubSeq(d, 1, 7) = "sha256("

\* No source of the machine state yields a descriptor.
NoDescriptor(m) ==
    /\ m.hostname = NoVal
    /\ OsIdentifier(m) = NoVal
    /\ m.cpu_serial = NoVal
    /\ GetMacAddress(m) = NoVal
    /\ m.node = 0

DoneMain(t) == call[t].pc = "done" /\ call[t].impl = "main"

\* C24: the exit status of the generated verifier is its decision.  A finished
\* run exited with 0 exactly when a license file was given and verify_license_file
\* returned accepted for it; every other run (no argument, the cryptography
\* library missing, any rejection) exited with 1 after printing the usage line
\* or the reason.
C24_ExitStatusIsDecision ==
    \A t \in Threads :
       DoneMain(t) =>
          LET c == call[t]
              called == Len(c.argv) >= 1
          IN /\ c.exit = 0 <=> (called /\ c.result.ok)
             /\ c.exit \in {0, 1}
             /\ ~called => c.printed = "Usage: verify_license.py <license_file>"
             /\ (called /\ ~c.result.ok)
                   => c.printed = "License validation failed: " \o Reason(c.result)
             /\ (called /\ c.result.ok)
                   => /\ c.art.kind = "json"
                      /\ c.result.details = JsonLoads(B64Decode(c.art.obj.license).val).val

\* C24 witness: a run on a license that is past its expiry exits with 1 after
\* printing the reason.
C24_Witness ==
    /\ DoneMain(1)
    /\ Len(call[1].argv) >= 1
    /\ call[1].exit = 1
    /\ call[1].prov.origin = "created"
    /\ call[1].printed = "License validation failed: License expired on " \o IsoFormat(1)

\* The artifact is whole under the key pair k: its claim bytes are signed with
\* k's private key, it embeds k's public key, and its seal is the one computed
\* over its license and signature text.
WholeUnder(art, k) ==
    /\ ~ParseFails(art)
    /\ ~SealFails(art)
    /\ art.obj.public_key = PublicPem(k)
    /\ art.obj.license.ok
    /\ art.obj.signature = B64Encode(RsaSign(k, art.obj.license.bytes))

\* C25: self-contained trust.  Every accepting call checked the signature, and
\* the key a call checks the signature with is the
\* public key embedded in the artifact it is checking, whatever key the vendor
\* holds and whatever key an earlier call loaded; so an artifact that is whole
\* under any key pair, whose bytes are a claim that passes the expiry and the
\* machine check and has the fields verify returns, is accepted.
C25_SelfContainedTrust ==
    \A t \in Threads :
       DoneVerify(t) =>
          LET c == call[t]
          IN /\ c.result.ok => c.key # NoKey
             /\ c.key # NoKey => c.key = LoadPemPublicKey(c.art.obj.public_key).val
             /\ \A k \in KeyIds :
                   (/\ WholeUnder(c.art, k)
                    /\ ~DecodeFails(c.art)
                    /\ ~ExpiryFails(ClaimOf(c.art), now)
                    /\ ~OtherMachine(ClaimOf(c.art), machine)
                    /\ ~DetailsFail(ClaimOf(c.art)))
                   => c.result.ok

\* C25 witness: an artifact made without the generator, whole under a key pair
\* the vendor never held, is accepted while the vendor's key files hold another
\* pair.
C25_Witness ==
    /\ DoneVerify(1)
    /\ call[1].prov.origin = "forged"
    /\ WholeUnder(call[1].art, 2)
    /\ keyfiles.public = 1
    /\ call[1].result.ok

\* C26: the two verifiers agree.  Whatever a license path holds, at every time
\* and on every machine state, verify (on an instance of its own) and the
\* generated verify_license_file (with the cryptography library installed)
\* return the same accept/reject decision for it.
C26_VerifiersAgree ==
    \A p \in LicensePaths :
       VerifyAlone(files[p], now, Machines[machine]).ok
          = VerifyLicenseFile(p, files[p], Machines[machine], now, TRUE).ok

\* C27: write_license preserves the artifact at the path it was asked to write.
\* In every step that issues a license, each license path the step wrote holds
\* afterwards the signed license (a JSON object with the four fields whose seal
\* matches), whether or not the path contains '.key'.
C27_WritePreserves ==
    [][nextId' # nextId
       => \A p \in LicensePaths :
             files'[p] # files[p]
                => /\ files'[p].kind = "json"
                   /\ ~ParseFails(files'[p])
                   /\ ~SealFails(files'[p])]_vars

\* C28: load_keys never replaces an existing private key.  In every state in
\* which the private key file exists, load_keys leaves both key files as they
\* are and the generator holds, and signs with, the private key of that file.
C28_LoadKeepsPrivateKey ==
    keyfiles.private # NoKey =>
       LET after == LoadKeysOn(KeyState)
       IN /\ after.keyfiles = keyfiles
          /\ after.gen.private_key = keyfiles.private
          /\ after.nextKey = nextKey

\* C29: key pair consistency.  The public key a generator holds is the public
\* half of the private key it holds, and every license sign_license signed and
\* write_license wrote unchanged verifies under the public key it embeds.
C29_KeyPairConsistent ==
    /\ gen.public_key = gen.private_key
    /\ \A p \in LicensePaths :
          (Signed(prov[p]) /\ prov[p].edits = << >> /\ files[p].kind = "json")
             => ~SignatureFails(files[p])

\* C30: the protected application starts only after a successful license
\* verification.  In run.sh the image-loading and service-start steps, and in
\* the entrypoint the integrity step and the exec of the application command,
\* are reached only in a run in which the license file existed and
\* verify_license.py exited 0, which it does only when verify_license_file
\* accepted the file; and a run whose license verification failed has exited
\* with a non-zero status with nothing loaded and nothing started.
PastLicense == launch.pc \in {"post", "start", "running"} \/ launch.loaded \/ launch.started

C30_StartsOnlyVerified ==
    /\ PastLicense => launch.checked /\ launch.seen /\ launch.py_exit = 0 /\ launch.accepted
    /\ launch.checked /\ ~(launch.seen /\ launch.py_exit = 0)
         => /\ launch.pc = "exited"
            /\ launch.status \notin {0, NoExit}
            /\ ~launch.loaded
            /\ ~launch.started
    /\ launch.pc = "exited" /\ launch.status # 0 => ~launch.started

\* A run that saw a license file which verify_license.py turned down, over
\* with status 1.
C30_Witness ==
    /\ launch.pc = "exited"
    /\ launch.checked
    /\ launch.seen
    /\ launch.py_exit = 1
    /\ launch.status = 1

====
